---- MODULE Spec2Model ----
(***************************************************************************)
(* AI writing assistant: the XState editor machine, the App event          *)
(* handlers, the Editor component with its ProseMirror view (document,     *)
(* selection, undo history) and its React effects, and the AI service.     *)
(*                                                                         *)
(* The document is one paragraph.  A document position is a ProseMirror    *)
(* position: position p (1 <= p <= Len(doc)+1) lies before the p-th        *)
(* character, so character i occupies the positions [i, i+1).              *)
(*                                                                         *)
(* An event handler runs to completion together with the React render      *)
(* passes and effects it triggers (JavaScript is single threaded and the   *)
(* effects of a commit are flushed before the next event is handled), so   *)
(* every action below is one stimulus plus the effect cascade it causes.   *)
(***************************************************************************)
EXTENDS Integers, Sequences, FiniteSets, TLC

VARIABLES
  machine,      \* the editorMachine actor: [value, context]
  view,         \* the ProseMirror EditorView state: doc, selection, history
  editor,       \* the Editor component: refs and useState values
  outstanding,  \* number of generateAIContent promises in flight
  config,       \* the environment: VITE_OPENAI_API_KEY / VITE_USE_MOCK_AI
  gesture,      \* history variable: the stimulus handled by the last step
  used          \* history variable: user edits and generations so far

vars == <<machine, view, editor, outstanding, config, gesture, used>>

---------------------------------------------------------------------------
(* Bounds of the model *)

\* number of undo groups the history keeps (the default depth of history())
HistoryDepth == 100
\* render passes after which an effect cascade is cut off
MaxRenders == 6
\* the editing the user does: placing the cursor costs 2, an edit of the
\* document (typing, deleting, undo, redo) costs 3
MaxEdits == 5
\* number of generation calls started
MaxGenerations == 2
\* the texts and cursor positions of the context extraction lie within
\* MaxSlack of 0 or of the context cap
MaxSlack == 2

---------------------------------------------------------------------------
(* Text *)

\* a character cell of the document: the character, whether it carries the
\* em mark, and (auxiliary) its part in the pending AI insertion: "text" for
\* a character of the generated text, "space" for the space inserted in
\* front of it, "no" for anything else
Cell(c, em, ai) == [ch |-> c, em |-> em, ai |-> ai]

\* the character typed by the user
UserChar == "u"

\* the characters of a document, without marks
Text(doc) == [i \in 1..Len(doc) |-> doc[i].ch]

\* auxiliary: the positions of the characters of the pending generated text
AIPositions(doc) == { i \in 1..Len(doc) : doc[i].ai = "text" }

\* auxiliary: the document without the cells of the pending AI insertion
IsUserCell(c) == c.ai = "no"
WithoutInsertion(doc) == SelectSeq(doc, IsUserCell)

\* String.prototype.trim on a sequence of characters
RECURSIVE TrimLeft(_)
TrimLeft(s) == IF s # <<>> /\ Head(s) = " " THEN TrimLeft(Tail(s)) ELSE s

RECURSIVE TrimRight(_)
TrimRight(s) ==
  IF s # <<>> /\ s[Len(s)] = " " THEN TrimRight(SubSeq(s, 1, Len(s) - 1)) ELSE s

Trim(s) == TrimRight(TrimLeft(s))

\* String.prototype.slice(start, end) with start >= 0 and end >= 0: both
\* are clamped to the length of the string
Slice(s, start, end) ==
  LET from == IF start < Len(s) THEN start ELSE Len(s)
      to == IF end < Len(s) THEN end ELSE Len(s)
  IN IF from < to THEN SubSeq(s, from + 1, to) ELSE <<>>

---------------------------------------------------------------------------
(* services/aiService.js *)

\* the mock continuations (stand-ins for the five canned sentences and the
\* three context-selected ones)
MockResponses == { <<"x", "y">> }

\* response.choices[0]?.message?.content of the real service; <<>> stands
\* for a missing or empty content
ApiContents == { <<>>, <<" ", "x", "y", " ">> }

\* errors thrown by openai.chat.completions.create
ApiErrors ==
  [status : {401, 429, 500, 0},
   code : {"insufficient_quota", "other"},
   onLine : BOOLEAN]

\* the environments: a key, the mock flag, or neither
Configurations ==
  { [apiKey |-> TRUE, useMock |-> FALSE],
    [apiKey |-> FALSE, useMock |-> TRUE],
    [apiKey |-> FALSE, useMock |-> FALSE] }

useMockMode(cfg) == ~cfg.apiKey \/ cfg.useMock

hasValidAPIKey(cfg) == cfg.apiKey \/ cfg.useMock

\* the messages of the catch block
ErrorMessageEmpty(err) ==
  IF err.status = 401 THEN "Invalid API key. Please check your OpenAI API key."
  ELSE IF err.status = 429 THEN "Rate limit exceeded. Please try again in a moment."
  ELSE IF err.status = 500 THEN "OpenAI service error. Please try again later."
  ELSE IF ~err.onLine THEN "No internet connection. Please check your network."
  ELSE ""

ErrorMessageByConnection(err) ==
  IF ~err.onLine THEN "No internet connection. Please check your network."
  ELSE IF err.status = 401 THEN "Invalid API key. Please check your OpenAI API key."
  ELSE IF err.status = 429 THEN "Rate limit exceeded. Please try again in a moment."
  ELSE IF err.status = 500 THEN "OpenAI service error. Please try again later."
  ELSE "Failed to generate content. Please try again."

ErrorMessage(err) ==
  IF err.status = 401 THEN "Invalid API key. Please check your OpenAI API key."
  ELSE IF err.status = 429 THEN "Rate limit exceeded. Please try again in a moment."
  ELSE IF err.status = 500 THEN "OpenAI service error. Please try again later."
  ELSE IF ~err.onLine THEN "No internet connection. Please check your network."
  ELSE "Failed to generate content. Please try again."

\* a settled call: slow tells that it took more than a second (the mock
\* generator waits 1000 to 3000 ms before it answers), log is the line
\* console.log has written about the mock generator
Resolved(t) ==
  [ok |-> TRUE, text |-> t, message |-> "", slow |-> FALSE, log |-> ""]
Rejected(m) ==
  [ok |-> FALSE, text |-> <<>>, message |-> m, slow |-> FALSE, log |-> ""]

MockModeLog == "Using mock AI service (no API key or mock mode enabled)"
QuotaLog == "Quota exceeded, falling back to mock AI"

Logged(outcomes, line) == { [o EXCEPT !.log = line] : o \in outcomes }

generateMockAIContent == { [Resolved(t) EXCEPT !.slow = TRUE] : t \in MockResponses }

\* the catch block: what the call settles with when the API threw err
CaughtWithoutFallback(err) == { Rejected(ErrorMessage(err)) }

Caught(err) ==
  IF err.status = 429 /\ err.code = "insufficient_quota"
  THEN Logged(generateMockAIContent, QuotaLog)
  ELSE { Rejected(ErrorMessage(err)) }

\* the number of characters before the cursor sent as context
ContextCap == 500

\* STEP 1 without the cap: everything before the cursor
contextTextUncapped(documentText, cursorPosition) ==
  Slice(documentText, 0, cursorPosition)

\* STEP 1: contextStart = Math.max(0, cursorPosition - 500);
\* contextText = documentText.slice(contextStart, cursorPosition)
contextText(documentText, cursorPosition) ==
  LET contextStart == IF cursorPosition - ContextCap > 0
                      THEN cursorPosition - ContextCap ELSE 0
  IN Slice(documentText, contextStart, cursorPosition)

\* the ways one call of generateAIContent can settle
generateAIContent(cfg) ==
  IF useMockMode(cfg) THEN Logged(generateMockAIContent, MockModeLog)
  ELSE { Resolved(Trim(c)) : c \in ApiContents }
       \cup UNION { Caught(e) : e \in ApiErrors }

---------------------------------------------------------------------------
(* machines/editorMachine.js *)

NullEditorState == [doc |-> <<>>, selection |-> 0]

\* a context field that does not exist reads as undefined; the request
\* flags are JavaScript values: "undefined", "true" or "false"
Undefined == "undefined"

Truthy(flag) == flag = "true"

\* the initial context has four fields; the request flags the Editor reads
\* appear when the machine first assigns them
InitialContextWithFlags ==
  [editorState |-> NullEditorState,
   generatedContent |-> <<>>,
   errorMessage |-> "",
   cursorPosition |-> 0,
   shouldDiscardContent |-> "false",
   shouldAcceptContent |-> "false"]

InitialContext ==
  [editorState |-> NullEditorState,
   generatedContent |-> <<>>,
   errorMessage |-> "",
   cursorPosition |-> 0,
   shouldDiscardContent |-> Undefined,
   shouldAcceptContent |-> Undefined]

Event(type) ==
  [type |-> type, cursorPosition |-> 0, editorState |-> NullEditorState,
   output |-> <<>>, message |-> ""]

\* a transition result: the new state and context, and whether the target
\* state was entered (an entered state starts its invoked service)
Goto(value, context) == [value |-> value, context |-> context, entered |-> TRUE]
Stay(m, context) == [value |-> m.value, context |-> context, entered |-> FALSE]

\* idle: CONTINUE_CLICK
OnContinueClick(m, ev) ==
  Goto("generating", [m.context EXCEPT !.cursorPosition = ev.cursorPosition])

\* generating: CONTINUE_CLICK has no handler (the event is dropped)
OnContinueClickWhileGeneratingRestart(m, ev) ==
  Goto("generating", [m.context EXCEPT !.cursorPosition = ev.cursorPosition])

OnContinueClickWhileGeneratingRecords(m, ev) ==
  Stay(m, [m.context EXCEPT !.cursorPosition = ev.cursorPosition])

OnContinueClickWhileGenerating(m, ev) == Stay(m, m.context)

\* generating: invoke.onDone
OnDoneKeepsOld(m, ev) == Goto("review", m.context)

OnDoneStays(m, ev) == Stay(m, [m.context EXCEPT !.generatedContent = ev.output])

OnDone(m, ev) ==
  Goto("review", [m.context EXCEPT !.generatedContent = ev.output])

\* generating: invoke.onError
OnErrorToReview(m, ev) ==
  Goto("review", [m.context EXCEPT !.errorMessage = ev.message])

OnError(m, ev) ==
  Goto("error", [m.context EXCEPT !.errorMessage = ev.message])

\* review: USER_ACCEPT
OnUserAccept(m, ev) ==
  Goto("idle", [m.context EXCEPT !.generatedContent = <<>>,
                                 !.shouldAcceptContent = "true"])

\* review: USER_DISCARD
OnUserDiscard(m, ev) ==
  Goto("idle", [m.context EXCEPT !.generatedContent = <<>>,
                                 !.shouldDiscardContent = "true"])

\* review: USER_CLEAR
OnUserClear(m, ev) ==
  Goto("idle", [m.context EXCEPT !.generatedContent = <<>>])

\* error: RETRY
OnRetryKeepsMessage(m, ev) == Goto("generating", m.context)

OnRetry(m, ev) ==
  Goto("generating", [m.context EXCEPT !.errorMessage = ""])

\* error: DISMISS
OnDismiss(m, ev) ==
  Goto("idle", [m.context EXCEPT !.errorMessage = ""])

\* any state: EDITOR_UPDATE
OnEditorUpdate(m, ev) ==
  Stay(m, [m.context EXCEPT !.editorState = ev.editorState])

\* any state: ACCEPT_HANDLED / DISCARD_HANDLED reset the request flags
OnAcceptHandled(m, ev) ==
  Stay(m, [m.context EXCEPT !.shouldAcceptContent = "false"])

OnDiscardHandled(m, ev) ==
  Stay(m, [m.context EXCEPT !.shouldDiscardContent = "false"])

\* an event with no handler in the current state is dropped
UnhandledUnlessAccept(m, ev) ==
  IF ev.type = "USER_ACCEPT" THEN OnUserAccept(m, ev) ELSE Stay(m, m.context)

Unhandled(m, ev) == Stay(m, m.context)

\* the machine's transition function
Transition(m, ev) ==
  CASE ev.type = "EDITOR_UPDATE" -> OnEditorUpdate(m, ev)
    [] ev.type = "ACCEPT_HANDLED" -> OnAcceptHandled(m, ev)
    [] ev.type = "DISCARD_HANDLED" -> OnDiscardHandled(m, ev)
    [] m.value = "idle" /\ ev.type = "CONTINUE_CLICK" -> OnContinueClick(m, ev)
    [] m.value = "generating" /\ ev.type = "CONTINUE_CLICK" ->
         OnContinueClickWhileGenerating(m, ev)
    [] m.value = "generating" /\ ev.type = "done" -> OnDone(m, ev)
    [] m.value = "generating" /\ ev.type = "error" -> OnError(m, ev)
    [] m.value = "review" /\ ev.type = "USER_ACCEPT" -> OnUserAccept(m, ev)
    [] m.value = "review" /\ ev.type = "USER_DISCARD" -> OnUserDiscard(m, ev)
    [] m.value = "review" /\ ev.type = "USER_CLEAR" -> OnUserClear(m, ev)
    [] m.value = "error" /\ ev.type = "RETRY" -> OnRetry(m, ev)
    [] m.value = "error" /\ ev.type = "DISMISS" -> OnDismiss(m, ev)
    [] OTHER -> Unhandled(m, ev)

\* actor.send: W is the world [machine, view, editor, outstanding, elapsed,
\* sent], elapsed being the time since the last recorded transaction and
\* sent (auxiliary) the types of the events the machine has received in this
\* step; entering generating calls generateAIContent once
Taken(W, t) ==
  [W EXCEPT !.machine = [value |-> t.value, context |-> t.context],
            !.outstanding =
               IF t.entered /\ t.value = "generating" THEN @ + 1 ELSE @]

Send(W, ev) ==
  Taken([W EXCEPT !.sent = Append(@, ev.type)], Transition(W.machine, ev))

---------------------------------------------------------------------------
(* The ProseMirror view: document, selection and prosemirror-history *)

\* the empty paragraph of EditorState.create
InitialView ==
  [doc |-> <<>>, selection |-> 1, done |-> <<>>, undone |-> <<>>,
   prevTime |-> "zero", prevRanges |-> <<>>]

\* newGroupDelay of history(): two transactions closer than this may join
newGroupDelay == 500

EditorStateOf(v) == [doc |-> v.doc, selection |-> v.selection]

\* auxiliary: forget which cells belong to a pending AI insertion
Untagged(doc) == [i \in 1..Len(doc) |-> [doc[i] EXCEPT !.ai = "no"]]

UntaggedStack(stack) ==
  [k \in 1..Len(stack) |-> [stack[k] EXCEPT !.doc = Untagged(@)]]

UntaggedView(v) ==
  [v EXCEPT !.doc = Untagged(@), !.done = UntaggedStack(@),
            !.undone = UntaggedStack(@)]

\* ResolvedPos.marks() for the em mark: the marks of the character before
\* the position, or of the one after it at the start of the paragraph
MarksAt(doc, pos) ==
  IF Len(doc) = 0 THEN FALSE
  ELSE IF pos = 1 THEN doc[1].em
  ELSE doc[pos - 1].em

\* Transform.insertText(text, pos): the cells take the marks at pos
InsertCells(doc, cells, pos) ==
  SubSeq(doc, 1, pos - 1) \o cells \o SubSeq(doc, pos, Len(doc))

DeleteCell(doc, i) == SubSeq(doc, 1, i - 1) \o SubSeq(doc, i + 1, Len(doc))

\* Transform.addMark(from, to, em)
AddMark(doc, from, to) ==
  [i \in 1..Len(doc) |->
     IF from <= i /\ i < to THEN [doc[i] EXCEPT !.em = TRUE] ELSE doc[i]]

\* Transform.removeMark(from, to, em): the range is clipped to the text
RemoveMarkToggles(doc, from, to) ==
  [i \in 1..Len(doc) |->
     IF from <= i /\ i < to THEN [doc[i] EXCEPT !.em = ~@] ELSE doc[i]]

RemoveMark(doc, from, to) ==
  [i \in 1..Len(doc) |->
     IF from <= i /\ i < to THEN [doc[i] EXCEPT !.em = FALSE] ELSE doc[i]]

\* Fragment.nodesBetween reads a child past the end of the document when
\* "to" lies beyond the closing token of the paragraph, and throws
RemoveMarkThrows(doc, from, to) == to > Len(doc) + 2

\* history: a stack keeps at most HistoryDepth groups
Push(stack, s) ==
  IF Len(stack) >= HistoryDepth THEN Append(Tail(stack), s) ELSE Append(stack, s)

\* isAdjacentTo(tr, prevRanges), for a first step that replaces [from, to]
IsAdjacentTo(from, to, prevRanges) ==
  /\ prevRanges # <<>>
  /\ from <= prevRanges[2]
  /\ to >= prevRanges[1]

\* history applyTransaction for a transaction with steps: v is the state
\* before, adjacent whether its first step map touches the previous ranges,
\* elapsed the time since the previous recorded transaction (prevTime is
\* "zero" before the first one and after an undo or redo)
Recorded(v, doc, selection, adjacent, ranges, elapsed) ==
  LET newGroup == v.prevTime = "zero" \/ elapsed > newGroupDelay \/ ~adjacent IN
  [doc |-> doc, selection |-> selection,
   done |-> IF newGroup THEN Push(v.done, EditorStateOf(v)) ELSE v.done,
   undone |-> <<>>, prevTime |-> "set", prevRanges |-> ranges]

\* typing one character at the cursor
TypeText(v, c, elapsed) ==
  LET p == v.selection IN
  Recorded(v, InsertCells(v.doc, <<Cell(c, MarksAt(v.doc, p), "no")>>, p),
           p + 1, IsAdjacentTo(p, p, v.prevRanges), <<p, p + 1>>, elapsed)

\* deleting the character before the cursor
Backspace(v, elapsed) ==
  LET i == v.selection - 1 IN
  Recorded(v, DeleteCell(v.doc, i), i,
           IsAdjacentTo(i, i + 1, v.prevRanges), <<i, i>>, elapsed)

\* a selection-only transaction (no steps: the history ignores it)
SetSelection(v, pos) == [v EXCEPT !.selection = pos]

\* the undo command: FALSE when there is nothing to undo
CanUndo(v) == v.done # <<>>

Undo(v) ==
  LET s == v.done[Len(v.done)] IN
  [doc |-> s.doc, selection |-> s.selection,
   done |-> SubSeq(v.done, 1, Len(v.done) - 1),
   undone |-> Push(v.undone, EditorStateOf(v)),
   prevTime |-> "zero", prevRanges |-> <<>>]

CanRedo(v) == v.undone # <<>>

Redo(v) ==
  LET s == v.undone[Len(v.undone)] IN
  [doc |-> s.doc, selection |-> s.selection,
   done |-> Push(v.done, EditorStateOf(v)),
   undone |-> SubSeq(v.undone, 1, Len(v.undone) - 1),
   prevTime |-> "zero", prevRanges |-> <<>>]

---------------------------------------------------------------------------
(* App.jsx: the event handlers *)

handleEditorStateChangeDiscards(W, editorState) ==
  LET W1 == Send(W, [Event("EDITOR_UPDATE") EXCEPT !.editorState = editorState]) IN
  IF W.machine.value = "review" /\ AIPositions(editorState.doc) = {}
  THEN Send(W1, Event("USER_DISCARD")) ELSE W1

handleEditorStateChangeDropped(W, editorState) == W

handleEditorStateChange(W, editorState) ==
  Send(W, [Event("EDITOR_UPDATE") EXCEPT !.editorState = editorState])

\* cursorPosition || 0; without a configured key the handler only alerts
handleContinueWithoutPosition(W, cfg, cursorPosition) ==
  IF ~hasValidAPIKey(cfg) THEN W
  ELSE Send(W, [Event("CONTINUE_CLICK") EXCEPT !.cursorPosition = 0])

handleContinueGuarded(W, cfg, cursorPosition) ==
  IF ~hasValidAPIKey(cfg) \/ W.machine.value \notin {"idle", "error"} THEN W
  ELSE Send(W, [Event("CONTINUE_CLICK") EXCEPT !.cursorPosition = cursorPosition])

handleContinue(W, cfg, cursorPosition) ==
  IF ~hasValidAPIKey(cfg) THEN W
  ELSE Send(W, [Event("CONTINUE_CLICK") EXCEPT !.cursorPosition = cursorPosition])

handleAccept(W) == Send(W, Event("USER_ACCEPT"))

handleDiscardMistyped(W) == Send(W, Event("DISCARD"))

handleDiscard(W) == Send(W, Event("USER_DISCARD"))

handleRetryAsContinue(W) == Send(W, Event("CONTINUE_CLICK"))

handleRetry(W) == Send(W, Event("RETRY"))

---------------------------------------------------------------------------
(* Editor.jsx: the component state and its effects *)

NoInfo == [present |-> FALSE, from |-> 0, to |-> 0, length |-> 0, insertPosition |-> 0]

InitialEditor ==
  [viewRef |-> FALSE, hasInsertedContent |-> FALSE, aiContentInfo |-> NoInfo,
   isDiscardingRef |-> FALSE, editable |-> TRUE, crashed |-> FALSE]

\* dispatchTransaction: apply the transaction, update the view, notify App
dispatchTransaction(W, newView) ==
  handleEditorStateChange([W EXCEPT !.view = newView], EditorStateOf(newView))

\* the props and state values one render passes to the effects
Rendered(W) ==
  [generatedContent |-> W.machine.context.generatedContent,
   shouldDiscardContent |-> W.machine.context.shouldDiscardContent,
   shouldAcceptContent |-> W.machine.context.shouldAcceptContent,
   value |-> W.machine.value,
   isGenerating |-> W.machine.value = "generating",
   hasInsertedContent |-> W.editor.hasInsertedContent,
   aiContentInfo |-> W.editor.aiContentInfo]

\* the position effect 2 inserts at
InsertionPoint(W) == W.view.selection

\* the range effect 2 records for the inserted text
RecordedInfoWithSpace(cursorPos, generatedContent) ==
  [present |-> TRUE,
   from |-> cursorPos,
   to |-> cursorPos + Len(generatedContent) + 1,
   length |-> Len(generatedContent) + 1,
   insertPosition |-> cursorPos]

RecordedInfo(cursorPos, generatedContent) ==
  [present |-> TRUE,
   from |-> cursorPos + 1,
   to |-> cursorPos + Len(generatedContent) + 1,
   length |-> Len(generatedContent) + 1,
   insertPosition |-> cursorPos]

\* state.tr.insertText(" " + generatedContent, cursorPos).addMark(from, to, em)
InsertAIContent(v, generatedContent, cursorPos, elapsed) ==
  LET em == MarksAt(v.doc, cursorPos)
      text == <<" ">> \o generatedContent
      cells == [i \in 1..Len(text) |->
                  Cell(text[i], em, IF i = 1 THEN "space" ELSE "text")]
      info == RecordedInfo(cursorPos, generatedContent)
      doc == AddMark(InsertCells(v.doc, cells, cursorPos), info.from, info.to)
  IN Recorded(v, doc, cursorPos + Len(text),
              IsAdjacentTo(cursorPos, cursorPos, v.prevRanges),
              <<cursorPos, cursorPos + Len(text)>>, elapsed)

\* EFFECT 2: insert the generated content
Effect2(N, W) ==
  IF N.generatedContent = <<>> \/ ~W.editor.viewRef \/ N.hasInsertedContent
  THEN W
  ELSE
    LET cursorPos == InsertionPoint(W)
        W1 == [W EXCEPT !.editor.aiContentInfo =
                           RecordedInfo(cursorPos, N.generatedContent)]
        W2 == dispatchTransaction(
                W1, InsertAIContent(W.view, N.generatedContent, cursorPos,
                                    W.elapsed))
    IN [W2 EXCEPT !.editor.hasInsertedContent = TRUE]

\* EFFECT 3: discard through the undo command
Effect3UndoesTwice(N, W) ==
  IF W.editor.isDiscardingRef \/ ~Truthy(N.shouldDiscardContent) \/ ~W.editor.viewRef
  THEN W
  ELSE
    LET W1 == IF CanUndo(W.view) THEN dispatchTransaction(W, Undo(W.view)) ELSE W
        W2 == IF CanUndo(W1.view) THEN dispatchTransaction(W1, Undo(W1.view)) ELSE W1
        W3 == [W2 EXCEPT !.editor.hasInsertedContent = FALSE]
    IN Send(W3, Event("DISCARD_HANDLED"))

Effect3(N, W) ==
  IF W.editor.isDiscardingRef \/ ~Truthy(N.shouldDiscardContent) \/ ~W.editor.viewRef
  THEN W
  ELSE
    LET W1 == IF CanUndo(W.view) THEN dispatchTransaction(W, Undo(W.view)) ELSE W
        W2 == [W1 EXCEPT !.editor.hasInsertedContent = FALSE]
    IN Send(W2, Event("DISCARD_HANDLED"))

\* the transaction of effect 4: removeMark over the recorded range; a
\* transaction without steps leaves the history alone
RemoveHighlight(v, info, elapsed) ==
  LET doc == RemoveMark(v.doc, info.from, info.to) IN
  IF doc = v.doc THEN v
  ELSE Recorded(v, doc, v.selection, FALSE, <<>>, elapsed)

\* EFFECT 4: accept, remove the highlighting
Effect4(N, W) ==
  IF ~Truthy(N.shouldAcceptContent) \/ ~N.aiContentInfo.present \/ ~W.editor.viewRef
  THEN W
  ELSE IF RemoveMarkThrows(W.view.doc, N.aiContentInfo.from, N.aiContentInfo.to)
  THEN [W EXCEPT !.editor.crashed = TRUE]
  ELSE
    LET W1 == dispatchTransaction(
                  W, RemoveHighlight(W.view, N.aiContentInfo, W.elapsed))
        W2 == [W1 EXCEPT !.editor.aiContentInfo = NoInfo,
                         !.editor.hasInsertedContent = FALSE]
    IN Send(W2, Event("ACCEPT_HANDLED"))

\* EFFECT 5: reset the insertion flag when not in review
Effect5(N, W) ==
  IF N.value # "review" THEN [W EXCEPT !.editor.hasInsertedContent = FALSE] ELSE W

\* EFFECT 6: editability follows isGenerating
Effect6Skipped(N, W) == W

Effect6Inverted(N, W) ==
  IF ~W.editor.viewRef THEN W ELSE [W EXCEPT !.editor.editable = N.isGenerating]

Effect6NeverReenables(N, W) ==
  IF ~W.editor.viewRef THEN W
  ELSE [W EXCEPT !.editor.editable = @ /\ ~N.isGenerating]

Effect6(N, W) ==
  IF ~W.editor.viewRef THEN W ELSE [W EXCEPT !.editor.editable = ~N.isGenerating]

\* one commit: the effects whose dependencies changed since the previous
\* render R run in order with the values N of this render
\* (each RunK is effect K behind its dependency array)
Run2(R, N, W) ==
  IF N.generatedContent # R.generatedContent
     \/ N.hasInsertedContent # R.hasInsertedContent
  THEN Effect2(N, W) ELSE W

Run3(R, N, W) ==
  IF N.shouldDiscardContent # R.shouldDiscardContent THEN Effect3(N, W) ELSE W

Run4(R, N, W) ==
  IF N.shouldAcceptContent # R.shouldAcceptContent
     \/ N.aiContentInfo # R.aiContentInfo
  THEN Effect4(N, W) ELSE W

Run5(R, N, W) == IF N.value # R.value THEN Effect5(N, W) ELSE W

Run6(R, N, W) == IF N.isGenerating # R.isGenerating THEN Effect6(N, W) ELSE W

RunEffects(R, N, W) ==
  Run6(R, N, Run5(R, N, Run4(R, N, Run3(R, N, Run2(R, N, W)))))

\* render until no dependency changes any more; R is the previous render
RECURSIVE Commit(_, _, _)
Commit(R, W, fuel) ==
  LET N == Rendered(W) IN
  IF N = R \/ W.editor.crashed \/ fuel = 0 THEN W
  ELSE Commit(N, RunEffects(R, N, W), fuel - 1)

\* EFFECT 1 (mount): create the view and report its initial state
MountEditor(W) ==
  handleEditorStateChange(
    [W EXCEPT !.view = InitialView, !.editor.viewRef = TRUE],
    EditorStateOf(InitialView))

---------------------------------------------------------------------------
(* The state machine of the whole application *)

\* the times that may have passed since the last recorded transaction (the
\* choice matters only when a transaction can join the previous group)
Delays ==
  IF view.prevTime = "zero" THEN {2 * newGroupDelay}
  ELSE {newGroupDelay, 2 * newGroupDelay}

World(elapsed) ==
  [machine |-> machine, view |-> view, editor |-> editor,
   outstanding |-> outstanding, elapsed |-> elapsed, sent |-> <<>>]

Now == World(2 * newGroupDelay)

\* the stimulus of a step: its kind, the cursor position a continue gesture
\* passes, the text or message a generation call settles with, the state
\* the machine was in when the stimulus arrived, and the events the machine
\* received while it was handled; for a settled call also the line logged
\* about the mock generator
Gesture(kind, arg) ==
  [kind |-> kind, arg |-> arg, output |-> <<>>, message |-> "", at |-> "idle",
   sent |-> <<>>, log |-> ""]

Init ==
  /\ machine = [value |-> "idle", context |-> InitialContext]
  /\ view = InitialView
  /\ editor = InitialEditor
  /\ outstanding = 0
  /\ config \in Configurations
  /\ gesture = Gesture("start", 0)
  /\ used = [edits |-> 0, generations |-> 0]

\* what a gesture costs of the MaxEdits budget
Cost(kind) == IF kind = "edit" THEN 3 ELSE IF kind = "cursor" THEN 2 ELSE 0

\* the world a handler leaves (W2) after the commits it causes
Handled(W2) == Commit(Rendered(Now), W2, MaxRenders)

\* the step of gesture g that ends in the world W3
Settle(g, W3) ==
  /\ machine' = W3.machine
  /\ view' = W3.view
  /\ editor' = W3.editor
  /\ outstanding' = W3.outstanding
  /\ gesture' = [g EXCEPT !.at = machine.value, !.sent = W3.sent]
  /\ used' = [edits |-> used.edits + Cost(g.kind),
              generations |-> used.generations
                              + (IF W3.outstanding > outstanding
                                 THEN W3.outstanding - outstanding ELSE 0)]
  /\ UNCHANGED config

\* the UI is mounted and has not been torn down by an uncaught error
Alive == editor.viewRef /\ ~editor.crashed

\* bound: at most MaxGenerations generation calls are started
MayGenerate == used.generations < MaxGenerations

\* bound: the user's editing stays within MaxEdits
MayEdit(kind) == Alive /\ editor.editable /\ used.edits + Cost(kind) <= MaxEdits

Mount ==
  /\ ~editor.viewRef
  /\ Settle(Gesture("mount", 0), Handled(MountEditor(Now)))

\* Toolbar: the Continue Writing button, onContinue(0)
ToolbarContinue ==
  /\ Alive /\ MayGenerate
  /\ machine.value \notin {"error", "generating"}
  /\ Settle(Gesture("continue", 0), Handled(handleContinue(Now, config, 0)))

\* Editor keymap: Mod-k, onContinue(state.selection.from)
ModK ==
  /\ Alive /\ MayGenerate
  /\ editor.editable
  /\ Settle(Gesture("continue", view.selection), Handled(handleContinue(Now, config, view.selection)))

\* Editor plugin: the inline continue button at the end of the text block,
\* onContinue(selection.to); the plugin keeps the props of the first render
InlineContinue ==
  /\ Alive /\ MayGenerate
  /\ view.selection = Len(view.doc) + 1
  /\ Settle(Gesture("continue", view.selection), Handled(handleContinue(Now, config, view.selection)))

\* the promise of generateAIContent settles
GenerationSettles ==
  /\ Alive
  /\ outstanding > 0
  /\ \E o \in generateAIContent(config), elapsed \in Delays :
       /\ o.slow => elapsed > newGroupDelay
       /\ LET W1 == [World(elapsed) EXCEPT !.outstanding = @ - 1]
              ev == IF o.ok THEN [Event("done") EXCEPT !.output = o.text]
                    ELSE [Event("error") EXCEPT !.message = o.message]
              g == [Gesture(IF o.ok THEN "resolve" ELSE "reject", 0)
                      EXCEPT !.output = o.text, !.message = o.message,
                             !.log = o.log]
          IN Settle(g, Handled(IF machine.value = "generating" THEN Send(W1, ev) ELSE W1))

\* AIToolbar (rendered in review): Accept
ClickAccept ==
  /\ Alive
  /\ machine.value = "review"
  /\ LET W3 == Handled(handleAccept(Now)) IN
     Settle(Gesture("accept", 0), [W3 EXCEPT !.view = UntaggedView(@)])

\* AIToolbar (rendered in review): Discard
ClickDiscard ==
  /\ Alive
  /\ machine.value = "review"
  /\ LET W3 == Handled(handleDiscard(Now)) IN
     Settle(Gesture("discard", 0), [W3 EXCEPT !.view = UntaggedView(@)])

\* Toolbar (rendered in error): Retry
ClickRetry ==
  /\ Alive /\ MayGenerate
  /\ machine.value = "error"
  /\ Settle(Gesture("retry", 0), Handled(handleRetry(Now)))

\* the user types a character at the cursor
UserTypes ==
  /\ MayEdit("edit")
  /\ \E elapsed \in Delays :
       Settle(Gesture("edit", 0), Handled(dispatchTransaction(Now, TypeText(view, UserChar, elapsed))))

\* the user deletes the character before the cursor
UserDeletes ==
  /\ MayEdit("edit")
  /\ view.selection > 1
  /\ \E elapsed \in Delays :
       Settle(Gesture("edit", 0), Handled(dispatchTransaction(Now, Backspace(view, elapsed))))

\* the user places the cursor
UserMovesCursor ==
  /\ MayEdit("cursor")
  /\ \E pos \in 1..(Len(view.doc) + 1) :
       /\ pos # view.selection
       /\ Settle(Gesture("cursor", 0), Handled(dispatchTransaction(Now, SetSelection(view, pos))))

\* a keystroke while the view is not editable: the view does not handle it
UserTypesReadOnly ==
  /\ Alive /\ ~editor.editable
  /\ Settle(Gesture("keystroke", 0), Handled(Now))

\* keymap Mod-z
UserUndo ==
  /\ MayEdit("edit")
  /\ CanUndo(view)
  /\ Settle(Gesture("edit", 0), Handled(dispatchTransaction(Now, Undo(view))))

\* keymap Mod-y / Mod-Shift-z
UserRedo ==
  /\ MayEdit("edit")
  /\ CanRedo(view)
  /\ Settle(Gesture("edit", 0), Handled(dispatchTransaction(Now, Redo(view))))

Next ==
  \/ Mount
  \/ ToolbarContinue
  \/ ModK
  \/ InlineContinue
  \/ GenerationSettles
  \/ ClickAccept
  \/ ClickDiscard
  \/ ClickRetry
  \/ UserTypes
  \/ UserDeletes
  \/ UserMovesCursor
  \/ UserUndo
  \/ UserRedo
  \/ UserTypesReadOnly

Spec == Init /\ [][Next]_vars

\* GenerationSettles is enabled exactly when a call is outstanding
CallOutstanding == Alive /\ outstanding > 0

\* the promise of an outstanding generation call settles eventually: weak
\* fairness of GenerationSettles, WF_vars(GenerationSettles), written out
\* with the action's enabling condition
FairSpec ==
  Spec /\ ([]<>(~CallOutstanding) \/ []<><<GenerationSettles>>_vars)

\* the lengths and positions near 0 and near the context cap
NearCap == (0..MaxSlack) \cup ((ContextCap - MaxSlack)..(ContextCap + MaxSlack))

\* a text of n characters; the i-th character is written i
TextOfLength(n) == [i \in 1..n |-> i]

\* a call generateAIContent(documentText, cursorPosition) with a key configured
ContextInit ==
  /\ machine = [value |-> "generating", context |-> InitialContext]
  /\ view = InitialView
  /\ editor = InitialEditor
  /\ outstanding = 1
  /\ config \in { cfg \in Configurations : ~useMockMode(cfg) }
  /\ \E n \in NearCap, c \in NearCap :
       gesture = [kind |-> "call", documentText |-> TextOfLength(n),
                  cursorPosition |-> c, contextText |-> <<>>]
  /\ used = [edits |-> 0, generations |-> 1]

\* generateAIContent, STEP 1: extract the context before the cursor
ExtractContext ==
  /\ gesture.kind = "call"
  /\ gesture' = [gesture EXCEPT
                   !.kind = "extracted",
                   !.contextText = contextText(gesture.documentText,
                                               gesture.cursorPosition)]
  /\ UNCHANGED <<machine, view, editor, outstanding, config, used>>

ContextSpec == ContextInit /\ [][ExtractContext]_vars

---------------------------------------------------------------------------
(* Properties *)

\* C1 (single flight): at most one generateAIContent call is outstanding
\* after every step, and a continue gesture (toolbar button, inline button
\* or Mod-k) that arrives while the machine is generating starts no call and
\* leaves the machine generating
C1_SingleFlight ==
  [][/\ outstanding' <= 1
     /\ (gesture'.kind = "continue" /\ machine.value = "generating")
          => (outstanding' = outstanding /\ machine'.value = "generating")]_vars

\* a continue gesture has arrived while the call was outstanding
C1_Witness ==
  /\ gesture.kind = "continue" /\ gesture.at = "generating"
  /\ machine.value = "generating" /\ outstanding = 1

\* C2 (range-state coupling): aiContentInfo is present exactly when the
\* machine is in review
C2_RangeStateCoupling ==
  editor.aiContentInfo.present <=> machine.value = "review"

\* no character of the user lies inside the pending AI insertion
EditsOutsideInsertion(doc) ==
  \A i, j, k \in 1..Len(doc) :
    (i < j /\ j < k /\ doc[i].ai # "no" /\ doc[k].ai # "no") => doc[j].ai # "no"

\* C3 (discard exactness): when the user edited only outside the inserted
\* span, the Discard click leaves the document as it was without the AI
\* insertion: the text that was there before the insertion together with
\* the edits made during review
C3_DiscardExactness ==
  [][(gesture'.kind = "discard" /\ EditsOutsideInsertion(view.doc))
       => Text(view'.doc) = Text(WithoutInsertion(view.doc))]_vars

\* C4 (accept preserves text, drops the marker): the Accept click keeps the
\* characters of the document, leaves no em mark on a character of the
\* generated text, and keeps the marks of every other character
C4_AcceptPreservesText ==
  [][gesture'.kind = "accept"
       => /\ Text(view'.doc) = Text(view.doc)
          /\ \A i \in 1..Len(view.doc) :
               IF view.doc[i].ai = "text" THEN ~view'.doc[i].em
               ELSE view'.doc[i].em = view.doc[i].em]_vars

\* C5 (insertion position): the generated text under review was inserted at
\* the cursor position stored with the CONTINUE_CLICK event
C5_InsertionAtCapturedPosition ==
  (machine.value = "review" /\ editor.hasInsertedContent)
    => editor.aiContentInfo.insertPosition = machine.context.cursorPosition

\* C6 (range remapping): in review the recorded range starts at the first
\* and ends after the last character of the generated text in the document
C6_RangeRemapped ==
  LET P == AIPositions(view.doc)
      info == editor.aiContentInfo
  IN (machine.value = "review" /\ editor.hasInsertedContent /\ P # {})
       => /\ info.from \in P
          /\ (info.to - 1) \in P
          /\ \A i \in P : info.from <= i /\ i < info.to

\* a user edit made in review removes the last characters of the generated
\* text from the document
SpanLost ==
  /\ machine.value = "review" /\ gesture'.kind = "edit"
  /\ AIPositions(view.doc) # {} /\ AIPositions(view'.doc) = {}

C8_ContinueFromIdle ==
  [][(gesture'.kind = "continue" /\ machine.value = "idle" /\ hasValidAPIKey(config))
       => /\ machine'.value = "generating"
          /\ machine'.context.cursorPosition = gesture'.arg
          /\ outstanding' = outstanding + 1]_vars

\* a continue gesture with a cursor position other than 0 has started a call
C8_Witness ==
  /\ gesture.kind = "continue" /\ gesture.at = "idle" /\ gesture.arg > 0
  /\ machine.value = "generating" /\ outstanding = 1

\* C9: when the call started in generating resolves with text t, the machine
\* moves to review and context.generatedContent is t
C9_ResolveToReview ==
  [][(gesture'.kind = "resolve" /\ machine.value = "generating")
       => /\ machine'.value = "review"
          /\ machine'.context.generatedContent = gesture'.output]_vars

\* a call has resolved with a text and the machine is in review
C9_Witness ==
  /\ gesture.kind = "resolve" /\ gesture.at = "generating"
  /\ gesture.output # <<>> /\ machine.value = "review"

\* C10: when the call rejects, the machine moves from generating to error
\* and context.errorMessage is the rejection's message; in error the
\* message is never empty
C10_RejectToError ==
  [][/\ (gesture'.kind = "reject" /\ machine.value = "generating")
          => /\ machine'.value = "error"
             /\ machine'.context.errorMessage = gesture'.message
     /\ machine'.value = "error" => machine'.context.errorMessage # ""]_vars

\* a call has been rejected and the machine is in error
C10_Witness ==
  /\ gesture.kind = "reject" /\ gesture.at = "generating"
  /\ machine.value = "error"
  /\ machine.context.errorMessage = "Failed to generate content. Please try again."

\* C11 (a failed generation leaves the document unchanged): from the
\* request to the moment the machine enters error no step changes the
\* document, so it is then what it was when the request was made, without
\* AI text or mark
C11_FailureLeavesDocument ==
  [][((machine.value = "generating" \/ machine'.value = "generating")
        /\ machine'.value \in {"generating", "error"})
       => /\ view'.doc = view.doc
          /\ AIPositions(view'.doc) = {}]_vars

\* a call made on a document with text has been rejected
C11_Witness ==
  /\ gesture.kind = "reject" /\ gesture.at = "generating"
  /\ machine.value = "error" /\ view.doc # <<>>

\* C12: from review, each of USER_ACCEPT and USER_DISCARD (the Accept and
\* Discard clicks) moves the machine to idle and resets generatedContent to
\* the empty string
C12_AcceptDiscardToIdle ==
  [][(gesture'.kind \in {"accept", "discard"} /\ machine.value = "review")
       => /\ machine'.value = "idle"
          /\ machine'.context.generatedContent = <<>>]_vars

\* a Discard click has been handled after an earlier Accept click left
\* unmarked generated text in the document
C12_Witness ==
  /\ gesture.kind = "discard" /\ gesture.at = "review"
  /\ machine.value = "idle" /\ machine.context.generatedContent = <<>>
  /\ \E i \in 1..Len(view.doc) : view.doc[i].ch = "x" /\ ~view.doc[i].em

\* C13: from error, RETRY moves the machine to generating and starts the
\* generation call again; neither the failure nor RETRY changes
\* context.cursorPosition
C13_RetryKeepsPosition ==
  [][/\ (gesture'.kind = "retry" /\ machine.value = "error")
          => /\ machine'.value = "generating"
             /\ outstanding' = outstanding + 1
             /\ machine'.context.cursorPosition = machine.context.cursorPosition
     /\ (gesture'.kind = "reject" /\ machine.value = "generating")
          => machine'.context.cursorPosition = machine.context.cursorPosition]_vars

\* a request made with a cursor position other than 0 is being retried
C13_Witness ==
  /\ gesture.kind = "retry" /\ gesture.at = "error"
  /\ machine.value = "generating" /\ outstanding = 1
  /\ machine.context.cursorPosition > 0

\* C14: errorMessage is non-empty only while the state is error: in idle,
\* generating and review it is empty
C14_ErrorMessageOnlyInError ==
  machine.value # "error" => machine.context.errorMessage = ""

\* the machine has left error through RETRY
C14_Witness ==
  /\ gesture.kind = "retry" /\ gesture.at = "error"
  /\ machine.value = "generating" /\ machine.context.errorMessage = ""

\* a gesture that takes the machine to idle without starting a generation
BackToIdle == Next /\ machine'.value = "idle" /\ outstanding' = outstanding

\* C15: in every error state the user has a gesture that leads back to idle
\* without starting another generation (DISMISS)
C15_DismissReachable ==
  (machine.value = "error" /\ Alive) => ENABLED BackToIdle

\* C16: a freshly started machine (no event sent yet) is in idle with the
\* context {editorState: null, generatedContent: '', errorMessage: '',
\* cursorPosition: 0} and no other field
C16_InitialContext ==
  ~editor.viewRef
    => /\ machine.value = "idle"
       /\ machine.context.editorState = NullEditorState
       /\ machine.context.generatedContent = <<>>
       /\ machine.context.errorMessage = ""
       /\ machine.context.cursorPosition = 0
       /\ machine.context.shouldDiscardContent = Undefined
       /\ machine.context.shouldAcceptContent = Undefined

\* the application has started and the Editor has not mounted yet
C16_Witness ==
  ~editor.viewRef /\ gesture.kind = "start" /\ outstanding = 0

\* C17: generatedContent is non-empty exactly when the state is review (so
\* a call that resolves with the empty string gives no review state)
C17_ContentIffReview ==
  machine.context.generatedContent # <<>> <=> machine.value = "review"

\* C18: review is entered only from generating, by a resolved generation
\* call
C18_ReviewOnlyByGeneration ==
  [][(machine'.value = "review" /\ machine.value # "review")
       => (machine.value = "generating" /\ gesture'.kind = "resolve")]_vars

\* review has been entered for the second time
C18_Witness ==
  /\ machine.value = "review" /\ gesture.kind = "resolve"
  /\ gesture.at = "generating" /\ used.generations = 2

\* C19: a CONTINUE_CLICK that arrives while the state is generating changes
\* nothing: state, context (cursorPosition of the first request), document
\* and the one outstanding call stay as they are
C19_SecondContinueNoOp ==
  [][(gesture'.kind = "continue" /\ machine.value = "generating")
       => /\ machine' = machine
          /\ view' = view
          /\ editor' = editor
          /\ outstanding' = outstanding]_vars

\* a second request with another cursor position has arrived in generating
C19_Witness ==
  /\ gesture.kind = "continue" /\ gesture.at = "generating"
  /\ machine.value = "generating"
  /\ gesture.arg # machine.context.cursorPosition

\* C20 as claimed: a user edit made while the state is generating is
\* applied to the document and reported to the machine (context.editorState
\* follows), and leaves the outstanding call alone
C20_EditWhileGeneratingAccepted ==
  [][(gesture'.kind \in {"edit", "keystroke"} /\ machine.value = "generating")
       => /\ view'.doc # view.doc
          /\ machine'.context.editorState = EditorStateOf(view')
          /\ machine'.value = "generating"
          /\ outstanding' = outstanding]_vars

\* C20 as amended: while the state is generating the view is read-only, so
\* a user edit attempted then is not applied: document, selection, history
\* and the machine (context.editorState included) stay as they are and the
\* outstanding call is not affected
C20_EditWhileGeneratingIgnored ==
  [][/\ machine'.value = "generating" => ~editor'.editable
     /\ machine.value = "generating" => gesture'.kind \notin {"edit", "cursor"}
     /\ (gesture'.kind = "keystroke" /\ machine.value = "generating")
          => /\ view' = view
             /\ machine' = machine
             /\ outstanding' = outstanding]_vars

\* the user has typed into a document with text while the call was
\* outstanding
C20_Witness ==
  /\ gesture.kind = "keystroke" /\ gesture.at = "generating"
  /\ machine.value = "generating" /\ outstanding = 1
  /\ view.doc # <<>>

\* C21: while the state is generating the view is not editable and no user
\* edit (typing, deleting, undo, redo, placing the cursor) is handled, so
\* the document stays as it is from the request to its completion; in idle,
\* review and error the view is editable
C21_EditableIffNotGenerating ==
  /\ Alive => (editor.editable <=> machine.value # "generating")
  /\ gesture.kind \in {"edit", "cursor"} => gesture.at # "generating"

\* editing is possible again in review, after a generation on a document
\* with text has completed
C21_Witness ==
  /\ gesture.kind = "resolve" /\ gesture.at = "generating"
  /\ machine.value = "review" /\ editor.editable
  /\ \E i \in 1..Len(view.doc) : view.doc[i].ch = UserChar

\* C22: EDITOR_UPDATE is handled in every state, keeps the state and
\* changes only context.editorState: the machine would take it so in the
\* state it is in, and a step in which the view reports a user's transaction
\* (or its initial state, at mount) leaves the state, generatedContent,
\* errorMessage and cursorPosition alone and stores the view's new state
C22_EditorUpdateFrame ==
  [][/\ LET es == EditorStateOf(view)
            t == Transition(machine, [Event("EDITOR_UPDATE") EXCEPT !.editorState = es])
        IN /\ t.value = machine.value /\ ~t.entered
           /\ t.context = [machine.context EXCEPT !.editorState = es]
     /\ gesture'.kind \in {"mount", "edit", "cursor"}
          => /\ machine'.value = machine.value
             /\ machine'.context =
                  [machine.context EXCEPT !.editorState = EditorStateOf(view')]]_vars

\* the view has reported a transaction of the user while the machine is in
\* error with a message and a stored cursor position
C22_Witness ==
  /\ gesture.kind = "cursor" /\ gesture.at = "error" /\ machine.value = "error"
  /\ machine.context.editorState = EditorStateOf(view)
  /\ machine.context.errorMessage # "" /\ machine.context.cursorPosition > 0

InvalidEvents(value) ==
  CASE value = "review" -> {"RETRY", "DISMISS", "CONTINUE_CLICK"}
    [] value = "error" -> {"USER_ACCEPT", "USER_DISCARD"}
    [] OTHER -> {"USER_ACCEPT", "USER_DISCARD", "RETRY", "DISMISS"}

\* the world W is the state the application is in
Unchanged(W) ==
  /\ W.machine = machine
  /\ W.view = view
  /\ W.editor = editor
  /\ W.outstanding = outstanding

\* C24: an event sent outside the states in which it is valid (USER_ACCEPT
\* and USER_DISCARD in idle, generating or error, RETRY and DISMISS in idle,
\* generating or review, CONTINUE_CLICK in review) is a no-op: sent to the
\* machine in the state the application is in, it leaves state and context
\* as they are, starts no call, and the commit that follows changes neither
\* the document nor the Editor's state
C24_InvalidEventsNoOps ==
  \A type \in InvalidEvents(machine.value) :
    Unchanged(Handled(Send(Now, Event(type))))

\* CONTINUE_CLICK has been sent by Mod-k or the inline button while marked
\* generated text was under review, and the machine is still in review
C24_Witness ==
  /\ gesture.kind = "continue" /\ gesture.at = "review" /\ gesture.arg > 0
  /\ "CONTINUE_CLICK" \in { gesture.sent[i] : i \in 1..Len(gesture.sent) }
  /\ machine.value = "review"
  /\ \E i \in 1..Len(view.doc) : view.doc[i].ai = "text" /\ view.doc[i].em

\* C25: when no API key is configured, a continue gesture made in idle takes
\* the machine to generating and starts a call, and that call resolves to
\* review with a text of the mock generator
C25_NoCredentialUsesMock ==
  [][~config.apiKey
       => /\ (gesture'.kind = "continue" /\ machine.value = "idle")
               => (machine'.value = "generating" /\ outstanding' = outstanding + 1)
          /\ (gesture'.kind \in {"resolve", "reject"} /\ machine.value = "generating")
               => /\ machine'.value = "review"
                  /\ machine'.context.generatedContent \in MockResponses]_vars

\* the message the claim gives for a failure that is not a quota failure
ClaimedMessage(err) ==
  CASE err.status = 401 -> "Invalid API key. Please check your OpenAI API key."
    [] err.status = 429 -> "Rate limit exceeded. Please try again in a moment."
    [] err.status = 500 -> "OpenAI service error. Please try again later."
    [] err.status \notin {401, 429, 500} /\ ~err.onLine ->
         "No internet connection. Please check your network."
    [] OTHER -> "Failed to generate content. Please try again."

\* C26: every failure of the real call has exactly one outcome: a mock
\* result for status 429 with code insufficient_quota and for nothing else,
\* otherwise a rejection with the fixed message of its kind (401, other 429,
\* 500, offline, unknown); and a rejected call reaches the machine as its
\* error event and nothing else: the machine is in error with that message
C26_FailureTaxonomy ==
  /\ \A err \in ApiErrors :
        IF err.status = 429 /\ err.code = "insufficient_quota"
        THEN \A o \in Caught(err) : o.ok /\ o.text \in MockResponses
        ELSE Caught(err) = { Rejected(ClaimedMessage(err)) }
  /\ gesture.kind = "reject"
       => /\ gesture.message \in { ClaimedMessage(err) : err \in ApiErrors }
          /\ gesture.at = "generating" /\ gesture.sent = <<"error">>
          /\ machine.value = "error"
          /\ machine.context.errorMessage = gesture.message
          /\ Alive

\* a call made while offline has been rejected
C26_Witness ==
  /\ gesture.kind = "reject" /\ gesture.at = "generating"
  /\ gesture.message = "No internet connection. Please check your network."
  /\ machine.value = "error" /\ config.apiKey /\ ~config.useMock

\* C27: a quota failure (status 429 with code insufficient_quota) never
\* leads to an error transition: the call resolves with a text of the mock
\* generator (the fallback is logged), and the machine goes from generating
\* to review with that text and an empty errorMessage
C27_QuotaFallsBackToMock ==
  /\ \A err \in ApiErrors :
        (err.status = 429 /\ err.code = "insufficient_quota")
          => \A o \in Caught(err) :
               o.ok /\ o.text \in MockResponses /\ o.log = QuotaLog
  /\ gesture.log = QuotaLog
       => /\ gesture.kind = "resolve" /\ gesture.at = "generating"
          /\ gesture.sent[1] = "done"
          /\ \A i \in 1..Len(gesture.sent) : gesture.sent[i] # "error"
          /\ machine.value = "review"
          /\ machine.context.generatedContent \in MockResponses
          /\ machine.context.errorMessage = ""

\* after a quota failure the mock text has been inserted for review
C27_Witness ==
  /\ gesture.log = QuotaLog /\ config.apiKey /\ ~config.useMock
  /\ machine.value = "review" /\ editor.hasInsertedContent
  /\ AIPositions(view.doc) # {}

\* the undo command would revert exactly the AI insertion: the latest group
\* of the history leads back to the document without the inserted cells
ReliableUndoPoint(v) ==
  /\ CanUndo(v)
  /\ \E i \in 1..Len(v.doc) : v.doc[i].ai # "no"
  /\ v.done[Len(v.done)].doc = WithoutInsertion(v.doc)

\* C28: when the Discard click finds no reliable undo point (nothing to
\* undo, or the latest group of the history is not the AI insertion), the
\* failure is surfaced to the user: the machine shows an error instead of
\* completing the discard silently
C28_RevertUnavailableSurfaced ==
  [][(gesture'.kind = "discard" /\ ~ReliableUndoPoint(view))
       => (machine'.value = "error" \/ machine'.context.errorMessage # "")]_vars

\* C29: the step that inserts the generated text t changes nothing outside
\* the inserted span: for some position p the characters before p and the
\* characters from p on are in the new document what they were, marks
\* included, and between them lie exactly a space and the characters of t
C29_InsertionFrame ==
  [][(gesture'.kind = "resolve" /\ machine.value = "generating"
        /\ gesture'.output # <<>>)
       => \E p \in 1..(Len(view.doc) + 1) :
            LET n == Len(gesture'.output) + 1 IN
            /\ Len(view'.doc) = Len(view.doc) + n
            /\ \A i \in 1..(p - 1) :
                 /\ view'.doc[i].ch = view.doc[i].ch
                 /\ view'.doc[i].em = view.doc[i].em
            /\ \A i \in p..Len(view.doc) :
                 /\ view'.doc[i + n].ch = view.doc[i].ch
                 /\ view'.doc[i + n].em = view.doc[i].em
            /\ [i \in 1..n |-> view'.doc[p - 1 + i].ch] = <<" ">> \o gesture'.output]_vars

\* the generated text of the example
HelloWorld == <<"H", "e", "l", "l", "o", " ", "w", "o", "r", "l", "d", ".">>

\* the insertion has just been made
JustInserted ==
  /\ gesture.kind = "resolve" /\ machine.value = "review"
  /\ editor.hasInsertedContent /\ editor.aiContentInfo.present

\* C30 as claimed: the recorded range is the whole inserted span, from the
\* insertion position p to p + |T| + 1, and the mark covers all of it
C30_RangeIsInsertedSpan ==
  JustInserted
    => LET info == editor.aiContentInfo IN
       /\ info.from = info.insertPosition
       /\ info.to = info.insertPosition + Len(machine.context.generatedContent) + 1
       /\ \A i \in info.from..(info.to - 1) : view.doc[i].em

\* C30 as amended: the recorded range is the generated text without the
\* separating space, {from: p + 1, to: p + |T| + 1} for the insertion
\* position p (a ProseMirror position: 1 in an empty document), and the
\* mark is put on exactly these characters; the space at p lies before the
\* range.  For "Hello world." inserted into the empty document the range
\* is {from: 2, to: 14}
C30_RangeIsGeneratedText ==
  /\ LET info == RecordedInfo(InitialView.selection, HelloWorld) IN
       info.from = 2 /\ info.to = 14 /\ info.length = 13
  /\ JustInserted
       => LET info == editor.aiContentInfo
              text == machine.context.generatedContent
          IN /\ info.from = info.insertPosition + 1
             /\ info.to = info.insertPosition + Len(text) + 1
             /\ view.doc[info.insertPosition].ch = " "
             /\ [i \in 1..Len(text) |-> view.doc[info.insertPosition + i].ch] = text
             /\ \A i \in info.from..(info.to - 1) :
                  view.doc[i].em /\ view.doc[i].ai = "text"

\* generated text has just been inserted after a character of the user
C30_Witness ==
  /\ JustInserted /\ gesture.at = "generating"
  /\ editor.aiContentInfo.insertPosition = 2
  /\ editor.aiContentInfo.from = 3 /\ editor.aiContentInfo.to = 5
  /\ view.doc[1].ch = UserChar /\ ~view.doc[2].em

\* the world after the step
WorldAfter ==
  [machine |-> machine', view |-> view', editor |-> editor',
   outstanding |-> outstanding', elapsed |-> 2 * newGroupDelay, sent |-> <<>>]

\* the world W is the state after the step
UnchangedAfter(W) ==
  /\ W.machine = machine'
  /\ W.view = view'
  /\ W.editor = editor'
  /\ W.outstanding = outstanding'

\* the view v is the view after the step
SameViewAfter(v) == v = view'

\* C31 (finalize is idempotent): the Accept click removes the em mark over
\* the recorded range; removing it over the same range once more leaves the
\* document (and the history) as the first removal left them, and a second
\* USER_ACCEPT handled after the first changes nothing
C31_FinalizeIdempotent ==
  [][(gesture'.kind = "accept" /\ editor.aiContentInfo.present /\ ~editor'.crashed)
       => /\ view'.doc =
               Untagged(RemoveMark(view.doc, editor.aiContentInfo.from,
                                   editor.aiContentInfo.to))
          /\ SameViewAfter(RemoveHighlight(view', editor.aiContentInfo,
                                           2 * newGroupDelay))
          /\ UnchangedAfter(Commit(Rendered(WorldAfter), handleAccept(WorldAfter),
                                   MaxRenders))]_vars

\* an Accept click has removed the marks of a generated text and the
\* machine has been told so
C31_Witness ==
  /\ gesture.kind = "accept" /\ gesture.at = "review"
  /\ gesture.sent = <<"USER_ACCEPT", "EDITOR_UPDATE", "ACCEPT_HANDLED">>
  /\ machine.value = "idle" /\ ~editor.aiContentInfo.present /\ Alive
  /\ \E i \in 1..Len(view.doc) : view.doc[i].ch = "x" /\ ~view.doc[i].em

\* C32: when every outstanding generation call eventually settles, the
\* state generating is always left for review or error, and a resolved
\* call's text is stored and inserted whatever the user did meanwhile; and
\* idle can be reached again from every state: in generating the call is
\* outstanding and may resolve, in review and error the UI is alive (so
\* Accept and Discard, or Retry, can be clicked), Accept and Discard lead
\* from review to idle and Retry leads from error to generating
C32_Progress ==
  /\ (machine.value = "generating") ~> (machine.value \in {"review", "error"})
  /\ [](machine.value = "generating"
          => /\ Alive /\ outstanding = 1
             /\ \E o \in generateAIContent(config) : o.ok)
  /\ [](machine.value \in {"review", "error"} => Alive)
  /\ [][/\ (gesture'.kind = "resolve" /\ machine.value = "generating")
             => /\ machine'.value = "review"
                /\ machine'.context.generatedContent = gesture'.output
                /\ (gesture'.output # <<>> => AIPositions(view'.doc) # {})
        /\ (gesture'.kind \in {"accept", "discard"} /\ machine.value = "review")
             => machine'.value = "idle"
        /\ (gesture'.kind = "retry" /\ machine.value = "error")
             => machine'.value = "generating"]_vars

\* the cycle has been gone through twice: a second generated text is under
\* review next to an accepted one, after keystrokes made while generating
C32_Witness ==
  /\ gesture.kind = "resolve" /\ gesture.at = "generating"
  /\ machine.value = "review" /\ used.generations = 2
  /\ AIPositions(view.doc) # {}
  /\ \E i \in 1..Len(view.doc) :
       view.doc[i].ch = "x" /\ view.doc[i].ai = "no" /\ ~view.doc[i].em

\* the events a step sent that report a document mutation: every dispatched
\* transaction reports EDITOR_UPDATE, the revert reports DISCARD_HANDLED and
\* the finalize ACCEPT_HANDLED
Issued(sent) ==
  SelectSeq(sent, LAMBDA type :
    type \in {"EDITOR_UPDATE", "DISCARD_HANDLED", "ACCEPT_HANDLED"})

\* C33: document mutations are serialized by the lifecycle: the step that
\* delivers a suggestion issues at most its one insertion and neither a
\* finalize nor a revert, an Accept click issues at most one finalize, a
\* Discard click at most one revert
C33_MutationsSerialized ==
  /\ gesture.kind = "resolve"
       => Issued(gesture.sent) \in {<<>>, <<"EDITOR_UPDATE">>}
  /\ gesture.kind = "accept"
       => Issued(gesture.sent) \in {<<>>, <<"EDITOR_UPDATE", "ACCEPT_HANDLED">>}
  /\ gesture.kind = "discard"
       => Issued(gesture.sent) \in {<<"DISCARD_HANDLED">>,
                                     <<"EDITOR_UPDATE", "DISCARD_HANDLED">>}

\* AIToolbar: the buttons of the review toolbar
AIToolbar == {"Accept", "Discard"}

\* App render: {isReview && <AIToolbar onAccept onDiscard />}; nothing is
\* rendered once an uncaught error has unmounted the tree
ReviewActions ==
  IF machine.value = "review" /\ ~editor.crashed THEN AIToolbar ELSE {}

\* C34: in review the user is offered the three review actions Accept,
\* Clear and Discard, and in every other state none of them
C34_ReviewActionsOffered ==
  ReviewActions = IF machine.value = "review"
                  THEN {"Accept", "Clear", "Discard"} ELSE {}

\* the outcome W of USER_CLEAR: idle, no generated content, and no
\* AI-generated character left in the document
Cleared(W) ==
  /\ W.machine.value = "idle"
  /\ W.machine.context.generatedContent = <<>>
  /\ AIPositions(W.view.doc) = {}

\* C35: from review, USER_CLEAR moves the machine to idle, resets
\* context.generatedContent to the empty string, and the AI-generated
\* content is removed from the document
C35_ClearRemovesContent ==
  machine.value = "review" => Cleared(Handled(Send(Now, Event("USER_CLEAR"))))

\* the smaller and the larger of two numbers
Smaller(a, b) == IF a < b THEN a ELSE b
Larger(a, b) == IF a > b THEN a ELSE b

\* C36 as stated: the context text has min(c, 500, |documentText|)
\* characters
C36_ContextLength ==
  gesture.kind = "extracted"
    => Len(gesture.contextText)
         = Smaller(gesture.cursorPosition,
                   Smaller(ContextCap, Len(gesture.documentText)))

\* C36: the context text is the document text from max(0, c - 500) up to
\* c, cut at the end of the text: it has
\* max(0, min(c, |documentText|) - max(0, c - 500)) characters, which is
\* min(c, 500) whenever the cursor lies within the text, and it is empty
\* when the request carries cursorPosition 0
C36_ContextBeforeCursor ==
  gesture.kind = "extracted"
    => LET c == gesture.cursorPosition
           n == Len(gesture.documentText)
           start == Larger(0, c - ContextCap)
           end == Smaller(c, n)
       IN /\ Len(gesture.contextText) = Larger(0, end - start)
          /\ \A i \in 1..Len(gesture.contextText) :
               gesture.contextText[i] = gesture.documentText[start + i]
          /\ c <= n => Len(gesture.contextText) = Smaller(c, ContextCap)
          /\ c = 0 => gesture.contextText = <<>>

\* a text longer than the cap with the cursor inside it, beyond the cap:
\* the context is the 500 characters before the cursor
C36_Witness ==
  /\ gesture.kind = "extracted"
  /\ gesture.cursorPosition = ContextCap + 1
  /\ Len(gesture.documentText) = ContextCap + 2
  /\ Len(gesture.contextText) = ContextCap
  /\ gesture.contextText[1] = 2
  /\ gesture.contextText[ContextCap] = ContextCap + 1

\* C37: every entry into review with a non-empty generatedContent inserts
\* the generated text into the document exactly once: one transaction is
\* dispatched, and the document grows by the separating space and the text
C37_InsertedExactlyOnce ==
  [][(gesture'.kind = "resolve" /\ machine.value = "generating"
        /\ gesture'.output # <<>>)
       => /\ machine'.value = "review"
          /\ SelectSeq(gesture'.sent, LAMBDA type : type = "EDITOR_UPDATE")
               = <<"EDITOR_UPDATE">>
          /\ Len(view'.doc) = Len(view.doc) + Len(gesture'.output) + 1]_vars

\* C38: every Accept click in review is followed by exactly one mark
\* removal and one ACCEPT_HANDLED, so the accept request flag is not set
\* after the click and never set while the machine is in use again
C38_AcceptHandledOnce ==
  /\ gesture.kind = "accept"
       => /\ Issued(gesture.sent) = <<"EDITOR_UPDATE", "ACCEPT_HANDLED">>
          /\ ~Truthy(machine.context.shouldAcceptContent)
  /\ machine.value # "idle" => ~Truthy(machine.context.shouldAcceptContent)

C40_AcceptUsesOwnRange ==
  [][(gesture'.kind = "accept" /\ editor.aiContentInfo.present)
       => /\ machine.context.generatedContent # <<>>
          /\ editor.aiContentInfo.to - editor.aiContentInfo.from
               = Len(machine.context.generatedContent)]_vars

====
